---- MODULE Spec2Model ----
(***************************************************************************)
(* Storage-inventory back end (FastAPI + SQLAlchemy + Redis).              *)
(*                                                                         *)
(* The relational tables, the Redis item-list cache and the item image     *)
(* directory are the state.  Every route handler of api/storage_router.py  *)
(* and api/user_router.py is an operator from the state before the request *)
(* to an outcome [status, body, db], and one action that applies it.       *)
(* HTTP status codes are kept as the code raises them.  Response-model     *)
(* serialisation and column timestamps are not part of the model.          *)
(***************************************************************************)
EXTENDS Integers, FiniteSets, Sequences, TLC

VARIABLES
    users,      \* member_user rows, by user_no
    profiles,   \* member_profile rows, by profile_id
    userCache,  \* user_no's that have a redis "user:<user_no>" key
    profileCache, \* redis "profile:<user_no>" -> cached profile ({} = no key)
    inflight,   \* requests between their existence check and their write
    outbox,     \* verification e-mails handed to the mail collaborator
    areas,      \* storage_area rows, by area_no
    rooms,      \* storage_room rows, by room_no
    storages,   \* storage_storage rows, by storage_no
    items,      \* item rows, by item_id
    itemCache,  \* redis "item:<storage_no>" -> cached item list ({} = no key)
    files,      \* names of the files present in ITEM_IMAGE_DIR
    seq         \* auto-increment counters and the count of names uuid4 has given

vars == <<users, profiles, userCache, profileCache, inflight, outbox,
          areas, rooms, storages, items, itemCache, files, seq>>

----------------------------------------------------------------------------
(* Bounds of the model *)

MaxUser == 2
MaxRows == 4    \* rows ever inserted into the four storage tables together
MaxFile == 1    \* files ever written by save_image into one directory
MaxProfile == 2  \* rows ever inserted into member_profile
MaxInflight == 2 \* requests in flight at once
MaxNamed == 3    \* items ever inserted into the one piece of furniture of InitSearch

(* HTTP status codes raised by the handlers *)
OK == 200
BadRequest == 400
Unauthorized == 401
Forbidden == 403
NotFound == 404
Unprocessable == 422
ServerError == 500

(* The spec's error kinds, as the code reports them *)
Conflict == BadRequest

(* item_imageURL values: None, a URL whose basename is empty (it resolves   *)
(* to ITEM_IMAGE_DIR itself), or k >= 1 for "/images/items/<name k>".       *)
NoImage == 0
DirURL == -1

(* "no value" for an optional integer or id of a request *)
None == 0

(* an explicit JSON null for item_quantity, for item_type, in an update body *)
NullQuantity == -1
NullType == "null"
NoCode == "None"

Emails == {"a@x.io", "b@x.io"}
Phones == {"01000000001", "01000000002"}
Passwords == {"secret1"}
PasswordInputs == Passwords \cup {"wrong1"}
Codes == {"111111", "222222"}
CodeInputs == Codes \cup {""}     \* VerifyCodeRequest.verification_code: a string
Genders == {"male", "female", "other"}
GenderInputs == {"male", "unknown"}
NicknameInputs == {"", "Neo"}     \* "" : no nickname sent, or an empty one
NoNickname == ""                  \* nickname: Optional[str] = Form(None)
NicknameUpdates == {NoNickname, "Neo"}

UserNos == 1..MaxUser
AreaNos == 1..MaxRows
RoomNos == 1..MaxRows
StorageNos == 1..MaxRows
ItemIds == 1..MaxRows
FileNames == 1..MaxFile

AreaNames == {"Garage", "Shed"}
RoomNames == {"Attic"}
StorageNames == {"Shelf", "Chest"}
ItemNames == {"Lamp"}
ItemTypes == {"food", "electronics", "clothing", "office_supplies",
              "household_goods", "other"}
ItemTypeInputs == {"food", "gadget"}
QuantityInputs == {0, 1}
RowNums == {1}
StorageRows == {1}
ImageURLs == {NoImage, DirURL} \cup FileNames

----------------------------------------------------------------------------
(* Generic table helpers *)

Insert(tbl, id, row) == (id :> row) @@ tbl

Remove(tbl, id) == [k \in (DOMAIN tbl) \ {id} |-> tbl[k]]

WithKey(key, id, row) == (key :> id) @@ row

(* The state a handler works on: the session's tables, the redis client     *)
(* and the image directory.                                                 *)
DB == [areas |-> areas, rooms |-> rooms, storages |-> storages, items |-> items,
       itemCache |-> itemCache, files |-> files, seq |-> seq]

Outcome(status, body, db) == [status |-> status, body |-> body, db |-> db]

Raise(status, db) == Outcome(status, {}, db)

----------------------------------------------------------------------------
(* The relational store behind the session.  It enforces the foreign keys  *)
(* that app/model.py declares: an INSERT whose parent id names no row and  *)
(* a DELETE of a row that a child still names raise IntegrityError.        *)
fk_violation(parents, parent_no) ==
    parent_no # None /\ parent_no \notin DOMAIN parents

(* db.delete(parent); db.commit().  The relationships of app/model.py have *)
(* no delete cascade: the unit of work SELECTs the children of the row     *)
(* and sets their parent column to NULL before the DELETE.  visible: that  *)
(* SELECT sees the rows committed since the request's first read (it does  *)
(* when requests run one after the other; between requests running at the *)
(* same time it depends on the isolation level).  Children it does not see *)
(* keep the parent id and the store refuses the DELETE.                    *)
Nullified(children, column, parent_no) ==
    [c \in DOMAIN children |->
        IF children[c][column] = parent_no
        THEN [children[c] EXCEPT ![column] = None] ELSE children[c]]

db_delete_area(db, area_no, visible) ==
    LET gone == [db EXCEPT !.areas = Remove(db.areas, area_no)]
    IN  IF \A r \in DOMAIN db.rooms : db.rooms[r].area_no # area_no
        THEN Outcome(OK, {}, gone)
        ELSE IF visible
        THEN Outcome(OK, {}, [gone EXCEPT !.rooms = Nullified(@, "area_no", area_no)])
        ELSE Raise(ServerError, db)

db_delete_room(db, room_no, visible) ==
    LET gone == [db EXCEPT !.rooms = Remove(db.rooms, room_no)]
    IN  IF \A t \in DOMAIN db.storages : db.storages[t].room_no # room_no
        THEN Outcome(OK, {}, gone)
        ELSE IF visible
        THEN Outcome(OK, {}, [gone EXCEPT !.storages = Nullified(@, "room_no", room_no)])
        ELSE Raise(ServerError, db)

db_delete_storage(db, storage_no, visible) ==
    LET gone == [db EXCEPT !.storages = Remove(db.storages, storage_no)]
    IN  IF \A i \in DOMAIN db.items : db.items[i].storage_no # storage_no
        THEN Outcome(OK, {}, gone)
        ELSE IF visible
        THEN Outcome(OK, {}, [gone EXCEPT !.items = Nullified(@, "storage_no", storage_no)])
        ELSE Raise(ServerError, db)

----------------------------------------------------------------------------
(* app/crud.py: storage areas *)

crud_create_storage_space(db, user_no, area_name) ==
    LET id == db.seq.area + 1
        row == [user_no |-> user_no, area_name |-> area_name, storage_owner |-> TRUE]
    IN  Outcome(OK, {WithKey("area_no", id, row)},
                [db EXCEPT !.areas = Insert(db.areas, id, row), !.seq.area = id])

crud_load_user_storage_space(db, user_no) ==
    LET spaces == {a \in DOMAIN db.areas :
                      db.areas[a].user_no = user_no /\ db.areas[a].storage_owner}
    IN  IF spaces = {} THEN Raise(NotFound, db)
        ELSE Outcome(OK, {WithKey("area_no", a, db.areas[a]) : a \in spaces}, db)

get_user_storage_space(db, user_no, area_no) ==
    IF /\ area_no \in DOMAIN db.areas
       /\ db.areas[area_no].user_no = user_no
       /\ db.areas[area_no].storage_owner
    THEN Outcome(OK, {WithKey("area_no", area_no, db.areas[area_no])}, db)
    ELSE Raise(NotFound, db)

(* update_storage_space answering with the new name without writing it *)
update_storage_space_unwritten(db, user_no, area_no, area_name) ==
    IF area_no \in DOMAIN db.areas /\ db.areas[area_no].user_no = user_no
    THEN Outcome(OK, {WithKey("area_no", area_no,
                              [db.areas[area_no] EXCEPT !.area_name = area_name])}, db)
    ELSE Raise(NotFound, db)

update_storage_space(db, user_no, area_no, area_name) ==
    IF area_no \in DOMAIN db.areas /\ db.areas[area_no].user_no = user_no
    THEN LET row == [db.areas[area_no] EXCEPT !.area_name = area_name]
         IN  Outcome(OK, {WithKey("area_no", area_no, row)},
                     [db EXCEPT !.areas[area_no] = row])
    ELSE Raise(NotFound, db)

delete_storage_space(db, user_no, area_no) ==
    IF area_no \in DOMAIN db.areas /\ db.areas[area_no].user_no = user_no
    THEN db_delete_area(db, area_no, TRUE)
    ELSE Raise(NotFound, db)

get_areas_by_user(db, user_no) ==
    {a \in DOMAIN db.areas : db.areas[a].user_no = user_no}

(* app/crud.py: rooms *)

crud_create_room(db, area_no, room_name) ==
    LET id == db.seq.room + 1
        row == [area_no |-> area_no, room_name |-> room_name]
    IN  IF fk_violation(db.areas, area_no) THEN Raise(ServerError, db)
        ELSE Outcome(OK, {WithKey("room_no", id, row)},
                     [db EXCEPT !.rooms = Insert(db.rooms, id, row), !.seq.room = id])

get_room(db, room_no) == room_no \in DOMAIN db.rooms

get_rooms_by_area(db, area_no) ==
    {r \in DOMAIN db.rooms : db.rooms[r].area_no = area_no}

(* get_rooms_by_user without the join: area_no compared with the user_no *)
get_rooms_by_user_unjoined(db, user_no) ==
    {r \in DOMAIN db.rooms : db.rooms[r].area_no = user_no}

get_rooms_by_user(db, user_no) ==
    {r \in DOMAIN db.rooms :
        \E a \in DOMAIN db.areas :
            db.rooms[r].area_no = a /\ db.areas[a].user_no = user_no}

crud_update_room(db, room_no, room_name) ==
    IF ~get_room(db, room_no) THEN Raise(NotFound, db)
    ELSE LET row == IF room_name # ""
                    THEN [db.rooms[room_no] EXCEPT !.room_name = room_name]
                    ELSE db.rooms[room_no]
         IN  Outcome(OK, {WithKey("room_no", room_no, row)},
                     [db EXCEPT !.rooms[room_no] = row])

crud_delete_room(db, room_no) ==
    IF ~get_room(db, room_no) THEN Raise(NotFound, db)
    ELSE db_delete_room(db, room_no, TRUE)

(* app/crud.py: furniture *)

crud_create_storage(db, room_no, storage_name, storage_row) ==
    LET id == db.seq.storage + 1
        row == [room_no |-> room_no, storage_name |-> storage_name,
                storage_row |-> storage_row]
    IN  IF fk_violation(db.rooms, room_no) THEN Raise(ServerError, db)
        ELSE Outcome(OK, {WithKey("storage_no", id, row)},
                     [db EXCEPT !.storages = Insert(db.storages, id, row),
                                !.seq.storage = id])

get_storage(db, storage_no) == storage_no \in DOMAIN db.storages

crud_get_storages_by_room(db, room_no) ==
    {s \in DOMAIN db.storages : db.storages[s].room_no = room_no}

(* dict(exclude_unset=True): the patch holds exactly the supplied keys.     *)
(* setattr of a key that is no column of the table changes no row.          *)
ApplyPatch(row, patch) ==
    [k \in DOMAIN row |-> IF k \in DOMAIN patch THEN patch[k] ELSE row[k]]

crud_update_storage(db, storage_no, storage_data) ==
    IF ~get_storage(db, storage_no) THEN Raise(NotFound, db)
    ELSE LET row == ApplyPatch(db.storages[storage_no], storage_data)
         IN  Outcome(OK, {WithKey("storage_no", storage_no, row)},
                     [db EXCEPT !.storages[storage_no] = row])

crud_delete_storage(db, storage_no) ==
    IF ~get_storage(db, storage_no) THEN Raise(NotFound, db)
    ELSE db_delete_storage(db, storage_no, TRUE)

(* app/crud.py: images and items *)

(* save_image: a fresh uuid4 name, the upload copied into the directory *)
save_image(db, file) ==
    IF ~file THEN [url |-> NoImage, db |-> db]
    ELSE LET name == db.seq.file + 1
         IN  [url |-> name,
              db |-> [db EXCEPT !.files = db.files \cup {name}, !.seq.file = name]]

(* os.path.exists(os.path.join(ITEM_IMAGE_DIR, os.path.basename(url))) *)
path_exists(db, url) == url = DirURL \/ url \in db.files

crud_create_item(db, item, file) ==
    LET saved == save_image(db, file)
        id == db.seq.item + 1
        row == [storage_no |-> item.storage_no, item_name |-> item.item_name,
                row_num |-> item.row_num, item_imageURL |-> saved.url,
                item_type |-> item.item_type, item_quantity |-> item.item_quantity]
    IN  IF ~(item.storage_no \in DOMAIN saved.db.storages)
        THEN Raise(NotFound, saved.db)
        ELSE IF item.row_num = None
        THEN Raise(ServerError, saved.db)      \* row_num is NOT NULL: commit fails
        ELSE Outcome(OK, {WithKey("item_id", id, row)},
                     [saved.db EXCEPT !.items = Insert(saved.db.items, id, row),
                                      !.seq.item = id])

get_item(db, item_id) == item_id \in DOMAIN db.items

(* the dictionary get_items_by_storage puts in the cache for one item *)
ItemDict(db, i) ==
    [item_id |-> i, item_name |-> db.items[i].item_name,
     row_num |-> db.items[i].row_num, item_imageURL |-> db.items[i].item_imageURL,
     item_type |-> db.items[i].item_type,
     item_quantity |-> db.items[i].item_quantity]

crud_get_items_by_storage(db, storage_no) ==
    LET cached_items == db.itemCache[storage_no]
        found == {i \in DOMAIN db.items : db.items[i].storage_no = storage_no}
    IN  IF cached_items # {} THEN Outcome(OK, cached_items, db)
        ELSE IF found # {}
        THEN Outcome(OK, {WithKey("item_id", i, db.items[i]) : i \in found},
                     [db EXCEPT !.itemCache[storage_no] =
                                    {ItemDict(db, i) : i \in found}])
        ELSE Outcome(OK, {}, db)

get_item_image_url(db, item_id) ==
    IF ~get_item(db, item_id) \/ db.items[item_id].item_imageURL = NoImage
    THEN Raise(NotFound, db)
    ELSE Outcome(OK, {[path |-> db.items[item_id].item_imageURL]}, db)

crud_update_item(db, item_id, item_data, file) ==
    IF ~get_item(db, item_id) THEN Raise(NotFound, db)
    ELSE LET saved == save_image(db, file)
             withFile == IF file
                         THEN [db.items[item_id] EXCEPT !.item_imageURL = saved.url]
                         ELSE db.items[item_id]
             row == ApplyPatch(withFile, item_data)
         IN  IF row.item_quantity = NullQuantity \/ row.item_type = NullType
             THEN Raise(ServerError, saved.db)  \* NOT NULL columns: commit fails
             ELSE Outcome(OK, {WithKey("item_id", item_id, row)},
                          [saved.db EXCEPT !.items[item_id] = row])

(* removable: whether the operating system lets os.remove delete the file *)
crud_delete_item(db, item_id, removable) ==
    IF ~get_item(db, item_id) THEN Raise(NotFound, db)
    ELSE LET url == db.items[item_id].item_imageURL
             gone == [db EXCEPT !.items = Remove(db.items, item_id)]
         IN  IF url # NoImage /\ path_exists(db, url)
             THEN IF url = DirURL \/ ~removable
                  THEN Raise(ServerError, db)   \* os.remove raises, nothing committed
                  ELSE Outcome(OK, {}, [gone EXCEPT !.files = db.files \ {url}])
             ELSE Outcome(OK, {}, gone)

----------------------------------------------------------------------------
(* app/crud.py: item search.  A name is the sequence of its characters'    *)
(* code points.                                                            *)

ord_ga == 44032      \* ord('가'), the first Hangul syllable

ord_hih == 55203     \* ord('힣'), the last one

CHO == <<12593, 12594, 12596, 12599, 12600, 12601, 12609, 12610, 12611, 12613,
         12614, 12615, 12616, 12617, 12618, 12619, 12620, 12621, 12622>>

(* CHO.index(chosung) + 1 *)
CHO_index(chosung) == CHOOSE k \in 1..Len(CHO) : CHO[k] = chosung

get_initial(item_name) ==
    [k \in 1..Len(item_name) |->
        IF ord_ga <= item_name[k] /\ item_name[k] <= ord_hih
        THEN CHO[((item_name[k] - ord_ga) \div 588) + 1]
        ELSE item_name[k]]

get_chosung_range(chosung) ==
    LET start_code == ord_ga + (CHO_index(chosung) - 1) * 588
    IN  {start_code + i * 28 + j : i \in 0..20, j \in 0..27}

(* Python's  t in s  on strings *)
Contains(s, t) ==
    \E k \in 0..(Len(s) - Len(t)) : \A j \in 1..Len(t) : s[k + j] = t[j]

(* the case folding of ILIKE; the names and queries drawn here hold no     *)
(* LIKE wildcard (% or _)                                                  *)
lower(s) ==
    [k \in 1..Len(s) |-> IF 65 <= s[k] /\ s[k] <= 90 THEN s[k] + 32 ELSE s[k]]

(* column.ilike(f"{syllable}%") *)
ilike_prefix(column, syllable) ==
    Len(column) >= 1 /\ lower(column)[1] = lower(<<syllable>>)[1]

(* column.ilike(f"%{item_name}%") *)
ilike_substring(column, item_name) == Contains(lower(column), lower(item_name))

get_item_list(db, item_name) ==
    LET item_initial == get_initial(item_name)
        found ==
            IF Len(item_name) = 1 /\ (\E k \in 1..Len(CHO) : CHO[k] = item_name[1])
            THEN {i \in DOMAIN db.items :
                     \E syllable \in get_chosung_range(item_name[1]) :
                         ilike_prefix(db.items[i].item_name, syllable)}
            ELSE {i \in DOMAIN db.items :
                     ilike_substring(db.items[i].item_name, item_name)}
        filtered_items ==
            {i \in found : Contains(get_initial(db.items[i].item_name), item_initial)}
    IN  Outcome(OK, {WithKey("item_id", i, db.items[i]) : i \in filtered_items}, db)

----------------------------------------------------------------------------
(* api/storage_router.py.  cu is current_user.user_no. *)

create_user_storage_space(db, cu, user_no, area_name) ==
    IF user_no # cu THEN Raise(Forbidden, db)
    ELSE crud_create_storage_space(db, user_no, area_name)

load_user_storage_space(db, cu, user_no) ==
    IF user_no # cu THEN Raise(Forbidden, db)
    ELSE crud_load_user_storage_space(db, user_no)

read_user_storage_space(db, cu, user_no, area_no) ==
    IF user_no # cu THEN Raise(Forbidden, db)
    ELSE get_user_storage_space(db, user_no, area_no)

update_user_storage_space(db, cu, user_no, area_no, area_name) ==
    IF user_no # cu THEN Raise(Forbidden, db)
    ELSE update_storage_space(db, user_no, area_no, area_name)

delete_user_storage_space(db, cu, user_no, area_no) ==
    IF user_no # cu THEN Raise(Forbidden, db)
    ELSE IF get_rooms_by_area(db, area_no) # {} THEN Raise(BadRequest, db)
    ELSE delete_storage_space(db, user_no, area_no)

(* create_room without the test of the area's owner *)
create_room_unchecked(db, cu, area_no, room_name) ==
    crud_create_room(db, area_no, room_name)

create_room(db, cu, area_no, room_name) ==
    IF area_no \notin get_areas_by_user(db, cu) THEN Raise(Forbidden, db)
    ELSE crud_create_room(db, area_no, room_name)

read_room(db, cu, room_no) ==
    IF ~get_room(db, room_no) THEN Raise(NotFound, db)
    ELSE IF db.rooms[room_no].area_no \notin get_areas_by_user(db, cu)
    THEN Raise(Forbidden, db)
    ELSE Outcome(OK, {WithKey("room_no", room_no, db.rooms[room_no])}, db)

read_rooms_by_area(db, cu, area_no) ==
    IF area_no \notin get_areas_by_user(db, cu) THEN Raise(Forbidden, db)
    ELSE Outcome(OK, {WithKey("room_no", r, db.rooms[r]) :
                          r \in get_rooms_by_area(db, area_no)}, db)

update_room(db, cu, room_no, room_name) ==
    IF ~get_room(db, room_no) THEN Raise(NotFound, db)
    ELSE IF db.rooms[room_no].area_no \notin get_areas_by_user(db, cu)
    THEN Raise(Forbidden, db)
    ELSE crud_update_room(db, room_no, room_name)

(* delete_room without the test for furniture *)
delete_room_unguarded(db, cu, room_no) ==
    IF ~get_room(db, room_no) THEN Raise(NotFound, db)
    ELSE IF db.rooms[room_no].area_no \notin get_areas_by_user(db, cu)
    THEN Raise(Forbidden, db)
    ELSE crud_delete_room(db, room_no)

delete_room(db, cu, room_no) ==
    IF ~get_room(db, room_no) THEN Raise(NotFound, db)
    ELSE IF db.rooms[room_no].area_no \notin get_areas_by_user(db, cu)
    THEN Raise(Forbidden, db)
    ELSE IF crud_get_storages_by_room(db, room_no) # {} THEN Raise(BadRequest, db)
    ELSE crud_delete_room(db, room_no)

create_storage(db, cu, room_no, storage_name, storage_row) ==
    IF room_no \notin get_rooms_by_user(db, cu) THEN Raise(Forbidden, db)
    ELSE crud_create_storage(db, room_no, storage_name, storage_row)

read_storage(db, cu, storage_no) ==
    IF ~get_storage(db, storage_no) THEN Raise(NotFound, db)
    ELSE IF db.storages[storage_no].room_no \notin get_rooms_by_user(db, cu)
    THEN Raise(Forbidden, db)
    ELSE Outcome(OK, {WithKey("storage_no", storage_no, db.storages[storage_no])}, db)

get_storages_by_room(db, cu, room_no) ==
    LET found == crud_get_storages_by_room(db, room_no)
    IN  IF room_no \notin get_rooms_by_user(db, cu) THEN Raise(Forbidden, db)
        ELSE Outcome(OK, {WithKey("storage_no", s, db.storages[s]) : s \in found}, db)

update_storage(db, cu, storage_no, storage_data) ==
    IF ~get_storage(db, storage_no) THEN Raise(NotFound, db)
    ELSE IF db.storages[storage_no].room_no \notin get_rooms_by_user(db, cu)
    THEN Raise(Forbidden, db)
    ELSE crud_update_storage(db, storage_no, storage_data)

(* no check of current_user: the handler goes from the existence check     *)
(* straight to the item check                                              *)
delete_storage(db, cu, storage_no) ==
    IF ~get_storage(db, storage_no) THEN Raise(NotFound, db)
    ELSE LET got == crud_get_items_by_storage(db, storage_no)
         IN  IF got.body # {} THEN Raise(BadRequest, got.db)
             ELSE crud_delete_storage(got.db, storage_no)

(* the ownership test looking only for the furniture's room *)
storage_owned_by_anyone(db, cu, storage_no) ==
    db.storages[storage_no].room_no \in DOMAIN db.rooms

(* the ownership test taking a cached item list for proof of ownership *)
storage_owned_by_cached(db, cu, storage_no) ==
    \/ db.itemCache[storage_no] # {}
    \/ db.storages[storage_no].room_no \in get_rooms_by_user(db, cu)

(* the ownership test shared by the item handlers *)
storage_owned_by(db, cu, storage_no) ==
    db.storages[storage_no].room_no \in get_rooms_by_user(db, cu)

(* schema.ItemCreate built inside the handler: a ValidationError there is  *)
(* an unhandled exception                                                  *)
ItemCreate_valid(item_type, item_quantity) ==
    item_type \in ItemTypes /\ item_quantity > 0

create_item_route(db, cu, item, file) ==
    IF ~get_storage(db, item.storage_no) THEN Raise(NotFound, db)
    ELSE IF ~storage_owned_by(db, cu, item.storage_no) THEN Raise(Forbidden, db)
    ELSE IF ~ItemCreate_valid(item.item_type, item.item_quantity)
    THEN Raise(ServerError, db)
    ELSE LET made == crud_create_item(db, item, file)
         IN  IF made.status # OK THEN made
             ELSE Outcome(OK, {[item_id |-> made.db.seq.item]}, made.db)

read_item(db, cu, item_id) ==
    IF ~get_item(db, item_id) THEN Raise(NotFound, db)
    ELSE IF ~get_storage(db, db.items[item_id].storage_no) THEN Raise(NotFound, db)
    ELSE IF ~storage_owned_by(db, cu, db.items[item_id].storage_no)
    THEN Raise(Forbidden, db)
    ELSE Outcome(OK, {WithKey("item_id", item_id, db.items[item_id])}, db)

(* no current_user dependency *)
get_item_image(db, item_id) ==
    LET got == get_item_image_url(db, item_id)
        url == db.items[item_id].item_imageURL
    IN  IF got.status # OK THEN got
        ELSE IF ~path_exists(db, url) THEN Raise(NotFound, db)
        ELSE IF url = DirURL THEN Raise(ServerError, db)   \* open() of a directory
        ELSE Outcome(OK, {[image |-> url]}, db)

get_items_by_storage_route(db, cu, storage_no) ==
    IF ~get_storage(db, storage_no) THEN Raise(NotFound, db)
    ELSE IF ~storage_owned_by(db, cu, storage_no) THEN Raise(Forbidden, db)
    ELSE crud_get_items_by_storage(db, storage_no)

(* schema.ItemUpdate is the request body: it is validated before the       *)
(* handler runs                                                            *)
(* schema.ItemUpdate with Field(None, ge=0) for item_quantity *)
ItemUpdate_valid_ge0(item_data) ==
    /\ "item_type" \in DOMAIN item_data =>
          item_data.item_type \in ItemTypes \cup {NullType}
    /\ "item_quantity" \in DOMAIN item_data =>
          item_data.item_quantity = NullQuantity \/ item_data.item_quantity >= 0

ItemUpdate_valid(item_data) ==
    /\ "item_type" \in DOMAIN item_data =>
          item_data.item_type \in ItemTypes \cup {NullType}
    /\ "item_quantity" \in DOMAIN item_data =>
          item_data.item_quantity = NullQuantity \/ item_data.item_quantity > 0

update_item_route(db, cu, item_id, item_data, file) ==
    IF ~ItemUpdate_valid(item_data) THEN Raise(Unprocessable, db)
    ELSE IF ~get_item(db, item_id) THEN Raise(NotFound, db)
    ELSE IF ~get_storage(db, db.items[item_id].storage_no) THEN Raise(NotFound, db)
    ELSE IF ~storage_owned_by(db, cu, db.items[item_id].storage_no)
    THEN Raise(Forbidden, db)
    ELSE crud_update_item(db, item_id, item_data, file)

delete_item(db, cu, item_id, removable) ==
    IF ~get_item(db, item_id) THEN Raise(NotFound, db)
    ELSE IF ~get_storage(db, db.items[item_id].storage_no) THEN Raise(NotFound, db)
    ELSE IF ~storage_owned_by(db, cu, db.items[item_id].storage_no)
    THEN Raise(Forbidden, db)
    ELSE crud_delete_item(db, item_id, removable)

----------------------------------------------------------------------------
(* app/crud.py and api/user_router.py: sign-up, verification, login.       *)
(* udb is the member_user table with the mail collaborator's outbox.       *)

UDB == [users |-> users, profiles |-> profiles, userCache |-> userCache,
        profileCache |-> profileCache, outbox |-> outbox, seq |-> seq]

get_user_by_email(udb, email) ==
    {u \in DOMAIN udb.users : udb.users[u].email = email}

get_user_by_phone(udb, cell_phone) ==
    {u \in DOMAIN udb.users : udb.users[u].cell_phone = cell_phone}

(* pwd_context.hash / pwd_context.verify *)
get_password_hash(password) == [bcrypt |-> password]

verify_password(plain_password, hashed) == hashed = [bcrypt |-> plain_password]

create_user(udb, user, verification_code) ==
    LET id == udb.seq.user + 1
        row == [email |-> user.email, cell_phone |-> user.cell_phone,
                password |-> get_password_hash(user.password),
                gender |-> user.gender,
                user_isDisabled |-> TRUE, verification_code |-> verification_code]
    IN  [udb EXCEPT !.users = Insert(udb.users, id, row), !.seq.user = id]

(* auth.send_verification_email: hands the code to the mail server, or raises *)
send_verification_email(udb, email, verification_code, delivered) ==
    IF delivered
    THEN [udb EXCEPT !.outbox = udb.outbox \cup
                        {[email |-> email, code |-> verification_code]}]
    ELSE udb

(* schema.UserCreate is the request body: gender is a GenderTypeEnum, a     *)
(* body that fails validation is answered 422 before the handler runs      *)
UserCreate_valid(user) == user.gender \in Genders

(* member_user without its two unique constraints *)
unique_violation_unenforced(udb, user) == FALSE

(* member_user.email and member_user.cell_phone are unique=True: the INSERT *)
(* of a row repeating either raises IntegrityError at db.commit()           *)
unique_violation(udb, user) ==
    \/ \E u \in DOMAIN udb.users : udb.users[u].email = user.email
    \/ \E u \in DOMAIN udb.users : udb.users[u].cell_phone = user.cell_phone

(* create_user_route from generate_verification_code() on: the IntegrityError *)
(* and a failure of the mail server are both caught by except Exception;      *)
(* db.rollback() undoes nothing that create_user has committed.               *)
create_user_route_write(udb, user, verification_code, delivered) ==
    IF unique_violation(udb, user) THEN Raise(ServerError, udb)
    ELSE LET made == create_user(udb, user, verification_code)
             sent == send_verification_email(made, user.email, verification_code,
                                             delivered)
         IN  IF ~delivered THEN Raise(ServerError, sent)
             ELSE Outcome(OK, {WithKey("user_no", made.seq.user,
                                       made.users[made.seq.user])}, sent)

(* Everything is inside try ... except Exception: the HTTPException(400) of *)
(* the duplicate check is caught there too and re-raised as a 500.          *)
create_user_route(udb, user, verification_code, delivered) ==
    IF ~UserCreate_valid(user) THEN Raise(Unprocessable, udb)
    ELSE IF get_user_by_email(udb, user.email) # {}
            \/ get_user_by_phone(udb, user.cell_phone) # {}
    THEN Raise(ServerError, udb)
    ELSE create_user_route_write(udb, user, verification_code, delivered)

(* verify_code_route without the comparison of the codes *)
verify_code_route_uncompared(udb, email, verification_code) ==
    LET found == get_user_by_email(udb, email)
        u == CHOOSE x \in found : TRUE
    IN  IF found = {} THEN Raise(NotFound, udb)
        ELSE Outcome(OK, {},
                     [udb EXCEPT !.users[u].user_isDisabled = FALSE,
                                 !.users[u].verification_code = NoCode])

verify_code_route(udb, email, verification_code) ==
    LET found == get_user_by_email(udb, email)
        u == CHOOSE x \in found : TRUE
    IN  IF found = {} THEN Raise(NotFound, udb)
        ELSE IF udb.users[u].verification_code # verification_code
        THEN Raise(BadRequest, udb)
        ELSE Outcome(OK, {},
                     [udb EXCEPT !.users[u].user_isDisabled = FALSE,
                                 !.users[u].verification_code = NoCode])

authenticate_user(udb, user_email, password) ==
    {u \in get_user_by_email(udb, user_email) :
        verify_password(password, udb.users[u].password)}

login_for_access_token(udb, username, password) ==
    LET found == authenticate_user(udb, username, password)
        u == CHOOSE x \in found : TRUE
    IN  IF found = {} THEN Raise(Unauthorized, udb)
        ELSE IF udb.users[u].user_isDisabled THEN Raise(Forbidden, udb)
        ELSE Outcome(OK, {[access_token |-> udb.users[u].email,
                           refresh_token |-> udb.users[u].email,
                           user_no |-> u]}, udb)

(* app/crud.py and api/user_router.py: profiles *)

(* get_user_by_no: the redis entry if there is one, else the row, which is *)
(* then cached for 3600 s.  cached: what is returned is the dict that      *)
(* json.loads gives, not a member_user object                              *)
get_user_by_no(udb, user_no) ==
    IF user_no \in udb.userCache
    THEN [found |-> TRUE, cached |-> TRUE, db |-> udb]
    ELSE IF user_no \in DOMAIN udb.users
    THEN [found |-> TRUE, cached |-> FALSE,
          db |-> [udb EXCEPT !.userCache = @ \cup {user_no}]]
    ELSE [found |-> FALSE, cached |-> FALSE, db |-> udb]

(* the dictionary get_profile_by_user_no puts in the cache *)
ProfileDict(udb, p) == WithKey("profile_id", p, udb.profiles[p])

(* get_profile_by_user_no: the redis entry if there is one, else .first()  *)
(* of the rows of the user, which is then cached for 3600 s.  cached: what *)
(* is returned is the dict that json.loads gives                           *)
get_profile_by_user_no(udb, user_no) ==
    LET rows == {p \in DOMAIN udb.profiles : udb.profiles[p].user_no = user_no}
        first == CHOOSE p \in rows : \A q \in rows : p <= q
    IN  IF udb.profileCache[user_no] # {}
        THEN [profile |-> udb.profileCache[user_no], cached |-> TRUE, db |-> udb]
        ELSE IF rows # {}
        THEN [profile |-> {ProfileDict(udb, first)}, cached |-> FALSE,
              db |-> [udb EXCEPT !.profileCache[user_no] = {ProfileDict(udb, first)}]]
        ELSE [profile |-> {}, cached |-> FALSE, db |-> udb]

(* save_image(file, PROFILE_IMAGE_DIR) *)
save_profile_image(udb, file) ==
    IF ~file THEN [url |-> NoImage, db |-> udb]
    ELSE [url |-> udb.seq.pfile + 1, db |-> [udb EXCEPT !.seq.pfile = @ + 1]]

(* create_user_profile after its two checks: the image, the row, the commit. *)
(* member_profile.user_no carries no unique constraint.                      *)
create_user_profile_write(udb, user_no, nickname, file) ==
    LET saved == save_profile_image(udb, file)
        id == udb.seq.profile + 1
        row == [user_no |-> user_no, nickname |-> nickname, image_url |-> saved.url]
    IN  Outcome(OK, {WithKey("profile_id", id, row)},
                [saved.db EXCEPT !.profiles = Insert(saved.db.profiles, id, row),
                                 !.seq.profile = id])

(* create_user_profile up to the INSERT: the user and the profile are looked up *)
create_user_profile_check(udb, user_no) ==
    LET user == get_user_by_no(udb, user_no)
        existing_profile == get_profile_by_user_no(user.db, user_no)
    IN  IF ~user.found THEN Raise(NotFound, user.db)
        ELSE IF existing_profile.profile # {} THEN Raise(BadRequest, existing_profile.db)
        ELSE Outcome(OK, {}, existing_profile.db)

create_user_profile(udb, user_no, nickname, file) ==
    LET checked == create_user_profile_check(udb, user_no)
    IN  IF checked.status # OK THEN checked
        ELSE create_user_profile_write(checked.db, user_no, nickname, file)

(* profile_create_route up to the INSERT *)
profile_create_route_check(udb, cu, user_no) ==
    LET existing_profile == get_profile_by_user_no(udb, user_no)
    IN  IF user_no # cu THEN Raise(Forbidden, udb)
        ELSE IF existing_profile.profile # {} THEN Raise(BadRequest, existing_profile.db)
        ELSE create_user_profile_check(existing_profile.db, user_no)

profile_create_route(udb, cu, user_no, nickname, file) ==
    LET checked == profile_create_route_check(udb, cu, user_no)
        made == create_user_profile_write(checked.db, user_no, nickname, file)
    IN  IF checked.status # OK THEN checked
        ELSE Outcome(OK, {[user_no |-> user_no]}, made.db)

(* get_user_info_with_profile: user.email and profile.nickname are          *)
(* attribute reads, which a dict does not have (AttributeError, a 500)     *)
get_user_info_with_profile(udb, user_no) ==
    LET user == get_user_by_no(udb, user_no)
        got == get_profile_by_user_no(user.db, user_no)
        profile == CHOOSE d \in got.profile : TRUE
    IN  IF ~user.found THEN Raise(NotFound, got.db)
        ELSE IF user.cached THEN Raise(ServerError, got.db)
        ELSE IF got.profile # {} /\ got.cached THEN Raise(ServerError, got.db)
        ELSE Outcome(OK,
                     {[email |-> udb.users[user_no].email,
                       cell_phone |-> udb.users[user_no].cell_phone,
                       gender |-> udb.users[user_no].gender,
                       nickname |-> IF got.profile # {} THEN profile.nickname
                                    ELSE NoNickname,
                       image_url |-> IF got.profile # {} THEN profile.image_url
                                     ELSE NoImage]},
                     got.db)

profile_read_route(udb, cu, user_no) ==
    IF user_no # cu THEN Raise(Forbidden, udb)
    ELSE get_user_info_with_profile(udb, user_no)

(* get_profile_image: profile.image_url is an attribute read as well; a    *)
(* file save_image wrote into PROFILE_IMAGE_DIR is never removed           *)
get_profile_image(udb, user_no) ==
    LET got == get_profile_by_user_no(udb, user_no)
        profile == CHOOSE d \in got.profile : TRUE
    IN  IF got.profile = {} THEN Raise(NotFound, got.db)
        ELSE IF got.cached THEN Raise(ServerError, got.db)
        ELSE IF profile.image_url = NoImage THEN Raise(NotFound, got.db)
        ELSE Outcome(OK, {[path |-> profile.image_url]}, got.db)

(* profile_update: user.profile is the relationship of a member_user       *)
(* object (uselist=False: the first row of the user); on a dict it is an   *)
(* AttributeError.  Only the profile's redis key is deleted after commit.  *)
profile_update(udb, user_no, nickname, file) ==
    LET user == get_user_by_no(udb, user_no)
        rows == {p \in DOMAIN udb.profiles : udb.profiles[p].user_no = user_no}
        p == CHOOSE q \in rows : \A r \in rows : q <= r
        saved == save_profile_image(user.db, file)
        row == [udb.profiles[p] EXCEPT
                   !.nickname = IF nickname # NoNickname THEN nickname ELSE @,
                   !.image_url = IF file THEN saved.url ELSE @]
    IN  IF ~user.found THEN Raise(NotFound, user.db)
        ELSE IF user.cached THEN Raise(ServerError, user.db)
        ELSE IF rows = {} THEN Raise(NotFound, user.db)
        ELSE Outcome(OK, {WithKey("profile_id", p, row)},
                     [saved.db EXCEPT !.profiles[p] = row,
                                      !.profileCache[user_no] = {}])

profile_update_route(udb, cu, user_no, nickname, file) ==
    IF user_no # cu THEN Raise(Forbidden, udb)
    ELSE profile_update(udb, user_no, nickname, file)

(* auth.get_current_user: the user a bearer token was issued to; login     *)
(* issues tokens to enabled users only                                     *)
Principals == {u \in DOMAIN users : ~users[u].user_isDisabled}

----------------------------------------------------------------------------
(* Request payloads *)

NoFields == [k \in {} |-> k]

Optional(key, values) == {NoFields} \cup {(key :> v) : v \in values}

(* schema.StorageUpdate declaring room_no, as schema.StorageCreate does *)
StorageUpdates_with_room_no ==
    {n @@ r @@ p : n \in Optional("storage_name", StorageNames),
                   r \in Optional("storage_row", StorageRows),
                   p \in Optional("room_no", RoomNos)}

StorageUpdates ==
    {n @@ r : n \in Optional("storage_name", StorageNames),
              r \in Optional("storage_row", StorageRows)}

ItemUpdates ==
    {n @@ u : n \in Optional("item_name", ItemNames),
              u \in Optional("item_imageURL", ImageURLs)}
    \cup Optional("item_type", ItemTypeInputs \cup {NullType})
    \cup Optional("item_quantity", QuantityInputs \cup {NullQuantity})

ItemCreates ==
    [storage_no : StorageNos, item_name : ItemNames, item_type : ItemTypeInputs,
     item_quantity : QuantityInputs, row_num : RowNums]

(* names and queries for the search: 가나, 나가, ㄱa, A, a나 and ㄱ, ㄴ, 가, a, ㄱㄴ *)
SearchNames ==
    {<<44032, 45208>>, <<45208, 44032>>, <<12593, 97>>, <<65>>, <<97, 45208>>}

SearchQueries == {<<12593>>, <<12596>>, <<44032>>, <<97>>, <<12593, 12596>>}

NamedItemCreates ==
    [storage_no : {1}, item_name : SearchNames, item_type : {"food"},
     item_quantity : {1}, row_num : RowNums]

UserCreates ==
    [email : Emails, cell_phone : Phones, password : Passwords, gender : GenderInputs]

----------------------------------------------------------------------------
(* Actions: one per route handler *)

(* rows inserted so far; the ids a request names: every row of the table  *)
(* and one id that was never handed out                                    *)
RowsMade == seq.area + seq.room + seq.storage + seq.item

Ids(tbl, last) == (DOMAIN tbl) \cup ({last + 1} \cap 1..MaxRows)

Write(out) ==
    /\ areas' = out.db.areas
    /\ rooms' = out.db.rooms
    /\ storages' = out.db.storages
    /\ items' = out.db.items
    /\ itemCache' = out.db.itemCache
    /\ files' = out.db.files
    /\ seq' = out.db.seq
    /\ UNCHANGED <<users, profiles, userCache, profileCache, outbox>>

Apply(out) == Write(out) /\ UNCHANGED inflight

WriteUser(out) ==
    /\ users' = out.db.users
    /\ profiles' = out.db.profiles
    /\ userCache' = out.db.userCache
    /\ profileCache' = out.db.profileCache
    /\ outbox' = out.db.outbox
    /\ seq' = out.db.seq
    /\ UNCHANGED <<areas, rooms, storages, items, itemCache, files>>

ApplyUser(out) == WriteUser(out) /\ UNCHANGED inflight

CreateUserStorageSpace(cu, user_no, area_name) ==
    /\ RowsMade < MaxRows
    /\ Apply(create_user_storage_space(DB, cu, user_no, area_name))

LoadUserStorageSpace(cu, user_no) == Apply(load_user_storage_space(DB, cu, user_no))

ReadUserStorageSpace(cu, user_no, area_no) ==
    Apply(read_user_storage_space(DB, cu, user_no, area_no))

UpdateUserStorageSpace(cu, user_no, area_no, area_name) ==
    Apply(update_user_storage_space(DB, cu, user_no, area_no, area_name))

DeleteUserStorageSpace(cu, user_no, area_no) ==
    Apply(delete_user_storage_space(DB, cu, user_no, area_no))

CreateRoom(cu, area_no, room_name) ==
    /\ RowsMade < MaxRows
    /\ Apply(create_room(DB, cu, area_no, room_name))

ReadRoom(cu, room_no) == Apply(read_room(DB, cu, room_no))

ReadRoomsByArea(cu, area_no) == Apply(read_rooms_by_area(DB, cu, area_no))

UpdateRoom(cu, room_no, room_name) == Apply(update_room(DB, cu, room_no, room_name))

DeleteRoom(cu, room_no) == Apply(delete_room(DB, cu, room_no))

CreateStorage(cu, room_no, storage_name, storage_row) ==
    /\ RowsMade < MaxRows
    /\ Apply(create_storage(DB, cu, room_no, storage_name, storage_row))

ReadStorage(cu, storage_no) == Apply(read_storage(DB, cu, storage_no))

GetStoragesByRoom(cu, room_no) == Apply(get_storages_by_room(DB, cu, room_no))

UpdateStorage(cu, storage_no, storage_data) ==
    Apply(update_storage(DB, cu, storage_no, storage_data))

DeleteStorage(cu, storage_no) == Apply(delete_storage(DB, cu, storage_no))

CreateItem(cu, item, file) ==
    /\ RowsMade < MaxRows
    /\ file => seq.file < MaxFile
    /\ Apply(create_item_route(DB, cu, item, file))

ReadItem(cu, item_id) == Apply(read_item(DB, cu, item_id))

GetItemImage(item_id) == Apply(get_item_image(DB, item_id))

GetItemsByStorage(cu, storage_no) == Apply(get_items_by_storage_route(DB, cu, storage_no))

UpdateItem(cu, item_id, item_data, file) ==
    /\ file => seq.file < MaxFile
    /\ Apply(update_item_route(DB, cu, item_id, item_data, file))

DeleteItem(cu, item_id, removable) == Apply(delete_item(DB, cu, item_id, removable))

(* crud.get_item_list; no route calls it, so it takes no current_user *)
GetItemList(item_name) == Apply(get_item_list(DB, item_name))

(* the item handlers, with bodies whose item_name is a searchable name *)
CreateNamedItem(cu, item) ==
    /\ seq.item < MaxNamed
    /\ Apply(create_item_route(DB, cu, item, FALSE))

(* the item handlers of user 1 on the one piece of furniture, with image   *)
(* uploads and image references                                            *)
CreateStoredItem(cu, item, file) ==
    /\ seq.item < MaxNamed
    /\ file => seq.file < MaxFile
    /\ Apply(create_item_route(DB, cu, item, file))

(* redis drops "item:<storage_no>" when its 1800 s have passed *)
CacheExpire(storage_no) ==
    /\ itemCache[storage_no] # {}
    /\ itemCache' = [itemCache EXCEPT ![storage_no] = {}]
    /\ UNCHANGED <<users, profiles, userCache, profileCache, inflight, outbox,
                   areas, rooms, storages, items, files, seq>>

Signup(user, verification_code, delivered) ==
    /\ seq.user < MaxUser
    /\ ApplyUser(create_user_route(UDB, user, verification_code, delivered))

VerifyCode(email, verification_code) ==
    ApplyUser(verify_code_route(UDB, email, verification_code))

Login(username, password) == ApplyUser(login_for_access_token(UDB, username, password))

ProfileCreate(cu, user_no, nickname, file) ==
    /\ seq.profile < MaxProfile
    /\ file => seq.pfile < MaxFile
    /\ ApplyUser(profile_create_route(UDB, cu, user_no, nickname, file))

ProfileRead(cu, user_no) == ApplyUser(profile_read_route(UDB, cu, user_no))

GetProfileImage(user_no) == ApplyUser(get_profile_image(UDB, user_no))

ProfileUpdate(cu, user_no, nickname, file) ==
    /\ file => seq.pfile < MaxFile
    /\ ApplyUser(profile_update_route(UDB, cu, user_no, nickname, file))

(* redis drops "user:<user_no>" / "profile:<user_no>" when its 3600 s have passed *)
UserCacheExpire(user_no) ==
    /\ user_no \in userCache
    /\ userCache' = userCache \ {user_no}
    /\ UNCHANGED <<users, profiles, profileCache, inflight, outbox,
                   areas, rooms, storages, items, itemCache, files, seq>>

ProfileCacheExpire(user_no) ==
    /\ profileCache[user_no] # {}
    /\ profileCache' = [profileCache EXCEPT ![user_no] = {}]
    /\ UNCHANGED <<users, profiles, userCache, inflight, outbox,
                   areas, rooms, storages, items, itemCache, files, seq>>

(* Requests served at the same time (threadpool threads, worker processes): *)
(* a request's checks and its write are two steps, and other requests may   *)
(* run between them.                                                        *)
InFlight ==
    Cardinality(inflight.signup) + Cardinality(inflight.profile)
    + Cardinality(inflight.storage)

SignupCheck(user, verification_code) ==
    /\ InFlight < MaxInflight
    /\ UserCreate_valid(user)
    /\ get_user_by_email(UDB, user.email) = {}
    /\ get_user_by_phone(UDB, user.cell_phone) = {}
    /\ inflight' = [inflight EXCEPT !.signup =
                        @ \cup {[user |-> user, code |-> verification_code]}]
    /\ UNCHANGED <<users, profiles, userCache, profileCache, outbox,
                   areas, rooms, storages, items, itemCache, files, seq>>

SignupWrite(req, delivered) ==
    /\ req \in inflight.signup
    /\ seq.user < MaxUser \/ unique_violation(UDB, req.user)
    /\ WriteUser(create_user_route_write(UDB, req.user, req.code, delivered))
    /\ inflight' = [inflight EXCEPT !.signup = @ \ {req}]

ProfileCreateCheck(cu, user_no, nickname, file) ==
    LET checked == profile_create_route_check(UDB, cu, user_no)
    IN  /\ InFlight < MaxInflight
        /\ checked.status = OK
        /\ WriteUser(checked)
        /\ inflight' = [inflight EXCEPT !.profile =
                            @ \cup {[user_no |-> user_no, nickname |-> nickname,
                                     file |-> file]}]

ProfileCreateWrite(req) ==
    /\ req \in inflight.profile
    /\ seq.profile < MaxProfile
    /\ req.file => seq.pfile < MaxFile
    /\ WriteUser(create_user_profile_write(UDB, req.user_no, req.nickname, req.file))
    /\ inflight' = [inflight EXCEPT !.profile = @ \ {req}]

(* The create and delete handlers of the storage tables in two steps: the *)
(* handler's own checks, which read, and its crud call, which writes.  A   *)
(* request whose checks fail is answered at once and writes nothing.       *)
Accept(op, cu, id) ==
    /\ InFlight < MaxInflight
    /\ inflight' = [inflight EXCEPT !.storage = @ \cup {[op |-> op, cu |-> cu, id |-> id]}]
    /\ UNCHANGED <<users, profiles, userCache, profileCache, outbox,
                   areas, rooms, storages, items, itemCache, files, seq>>

Finish(req, op, out) ==
    /\ req \in inflight.storage
    /\ req.op = op
    /\ Write(out)
    /\ inflight' = [inflight EXCEPT !.storage = @ \ {req}]

CreateRoomCheck(cu, area_no) ==
    /\ create_room(DB, cu, area_no, "Attic").status = OK
    /\ Accept("create_room", cu, area_no)

CreateRoomWrite(req) ==
    /\ RowsMade < MaxRows
    /\ Finish(req, "create_room", crud_create_room(DB, req.id, "Attic"))

CreateStorageCheck(cu, room_no) ==
    /\ create_storage(DB, cu, room_no, "Shelf", 1).status = OK
    /\ Accept("create_storage", cu, room_no)

CreateStorageWrite(req) ==
    /\ RowsMade < MaxRows
    /\ Finish(req, "create_storage", crud_create_storage(DB, req.id, "Shelf", 1))

NewItem(storage_no) ==
    [storage_no |-> storage_no, item_name |-> "Lamp", item_type |-> "food",
     item_quantity |-> 1, row_num |-> 1]

CreateItemCheck(cu, storage_no) ==
    /\ create_item_route(DB, cu, NewItem(storage_no), FALSE).status = OK
    /\ Accept("create_item", cu, storage_no)

CreateItemWrite(req) ==
    /\ RowsMade < MaxRows
    /\ Finish(req, "create_item", crud_create_item(DB, NewItem(req.id), FALSE))

DeleteAreaCheck(cu, area_no) ==
    /\ delete_user_storage_space(DB, cu, cu, area_no).status = OK
    /\ Accept("delete_area", cu, area_no)

DeleteAreaWrite(req, visible) ==
    Finish(req, "delete_area",
           IF req.id \in DOMAIN areas /\ areas[req.id].user_no = req.cu
           THEN db_delete_area(DB, req.id, visible) ELSE Raise(NotFound, DB))

DeleteRoomCheck(cu, room_no) ==
    /\ delete_room(DB, cu, room_no).status = OK
    /\ Accept("delete_room", cu, room_no)

DeleteRoomWrite(req, visible) ==
    Finish(req, "delete_room",
           IF get_room(DB, req.id) THEN db_delete_room(DB, req.id, visible)
           ELSE Raise(NotFound, DB))

DeleteStorageCheck(cu, storage_no) ==
    /\ delete_storage(DB, cu, storage_no).status = OK
    /\ Accept("delete_storage", cu, storage_no)

DeleteStorageWrite(req, visible) ==
    Finish(req, "delete_storage",
           IF get_storage(DB, req.id) THEN db_delete_storage(DB, req.id, visible)
           ELSE Raise(NotFound, DB))

----------------------------------------------------------------------------
(* Specifications *)

NoRows == [k \in {} |-> k]

NoInflight == [signup |-> {}, profile |-> {}, storage |-> {}]

Seq0 == [user |-> 0, profile |-> 0, pfile |-> 0,
         area |-> 0, room |-> 0, storage |-> 0, item |-> 0, file |-> 0]

(* the service right after create_tables() on an empty database *)
InitEmpty ==
    /\ users = NoRows
    /\ profiles = NoRows
    /\ userCache = {}
    /\ profileCache = [u \in UserNos |-> {}]
    /\ inflight = NoInflight
    /\ outbox = {}
    /\ areas = NoRows
    /\ rooms = NoRows
    /\ storages = NoRows
    /\ items = NoRows
    /\ itemCache = [s \in StorageNos |-> {}]
    /\ files = {}
    /\ seq = Seq0

Registered(u) ==
    [email |-> IF u = 1 THEN "a@x.io" ELSE "b@x.io",
     cell_phone |-> IF u = 1 THEN "01000000001" ELSE "01000000002",
     password |-> get_password_hash("secret1"), gender |-> "male",
     user_isDisabled |-> FALSE, verification_code |-> NoCode]

(* the service once two users have signed up and verified their e-mail     *)
(* (a state SpecUser reaches); the storage tables are still empty          *)
Init ==
    /\ users = [u \in 1..2 |-> Registered(u)]
    /\ profiles = NoRows
    /\ userCache = {}
    /\ profileCache = [u \in UserNos |-> {}]
    /\ inflight = NoInflight
    /\ outbox = {[email |-> Registered(u).email, code |-> "111111"] : u \in 1..2}
    /\ areas = NoRows
    /\ rooms = NoRows
    /\ storages = NoRows
    /\ items = NoRows
    /\ itemCache = [s \in StorageNos |-> {}]
    /\ files = {}
    /\ seq = [Seq0 EXCEPT !.user = 2]

NextUser ==
    \/ \E user \in UserCreates, code \in Codes, delivered \in BOOLEAN :
          Signup(user, code, delivered)
    \/ \E email \in Emails, code \in CodeInputs : VerifyCode(email, code)
    \/ \E email \in Emails, password \in PasswordInputs : Login(email, password)
    \/ \E cu \in Principals, u \in UserNos, n \in NicknameInputs, file \in BOOLEAN :
          ProfileCreate(cu, u, n, file)
    \/ \E cu \in Principals, u \in UserNos : ProfileRead(cu, u)
    \/ \E u \in UserNos : GetProfileImage(u)
    \/ \E cu \in Principals, u \in UserNos, n \in NicknameUpdates, file \in BOOLEAN :
          ProfileUpdate(cu, u, n, file)
    \/ \E u \in UserNos : UserCacheExpire(u)
    \/ \E u \in UserNos : ProfileCacheExpire(u)

NextRace ==
    \/ \E user \in UserCreates, code \in Codes : SignupCheck(user, code)
    \/ \E req \in inflight.signup, delivered \in BOOLEAN : SignupWrite(req, delivered)
    \/ \E cu \in Principals, n \in NicknameInputs, file \in BOOLEAN :
          ProfileCreateCheck(cu, cu, n, file)
    \/ \E req \in inflight.profile : ProfileCreateWrite(req)
    \/ \E email \in Emails, code \in CodeInputs : VerifyCode(email, code)

Next ==
    \/ \E cu \in Principals, u \in DOMAIN users, n \in AreaNames :
          CreateUserStorageSpace(cu, u, n)
    \/ \E cu \in Principals, u \in DOMAIN users : LoadUserStorageSpace(cu, u)
    \/ \E cu \in Principals, u \in DOMAIN users, a \in Ids(areas, seq.area) : ReadUserStorageSpace(cu, u, a)
    \/ \E cu \in Principals, u \in DOMAIN users, a \in Ids(areas, seq.area), n \in AreaNames :
          UpdateUserStorageSpace(cu, u, a, n)
    \/ \E cu \in Principals, u \in DOMAIN users, a \in Ids(areas, seq.area) : DeleteUserStorageSpace(cu, u, a)
    \/ \E cu \in Principals, a \in Ids(areas, seq.area), n \in RoomNames : CreateRoom(cu, a, n)
    \/ \E cu \in Principals, r \in Ids(rooms, seq.room) : ReadRoom(cu, r)
    \/ \E cu \in Principals, a \in Ids(areas, seq.area) : ReadRoomsByArea(cu, a)
    \/ \E cu \in Principals, r \in Ids(rooms, seq.room), n \in RoomNames \cup {""} : UpdateRoom(cu, r, n)
    \/ \E cu \in Principals, r \in Ids(rooms, seq.room) : DeleteRoom(cu, r)
    \/ \E cu \in Principals, r \in Ids(rooms, seq.room), n \in StorageNames, w \in StorageRows :
          CreateStorage(cu, r, n, w)
    \/ \E cu \in Principals, s \in Ids(storages, seq.storage) : ReadStorage(cu, s)
    \/ \E cu \in Principals, r \in Ids(rooms, seq.room) : GetStoragesByRoom(cu, r)
    \/ \E cu \in Principals, s \in Ids(storages, seq.storage), d \in StorageUpdates : UpdateStorage(cu, s, d)
    \/ \E cu \in Principals, s \in Ids(storages, seq.storage) : DeleteStorage(cu, s)
    \/ \E cu \in Principals, item \in ItemCreates, file \in BOOLEAN :
          item.storage_no \in Ids(storages, seq.storage) /\ CreateItem(cu, item, file)
    \/ \E cu \in Principals, i \in Ids(items, seq.item) : ReadItem(cu, i)
    \/ \E i \in Ids(items, seq.item) : GetItemImage(i)
    \/ \E cu \in Principals, s \in Ids(storages, seq.storage) : GetItemsByStorage(cu, s)
    \/ \E cu \in Principals, i \in Ids(items, seq.item), d \in ItemUpdates, file \in BOOLEAN :
          (file => DOMAIN d \subseteq {"item_imageURL"}) /\ UpdateItem(cu, i, d, file)
    \/ \E cu \in Principals, i \in Ids(items, seq.item), removable \in BOOLEAN : DeleteItem(cu, i, removable)
    \/ \E s \in Ids(storages, seq.storage) : CacheExpire(s)

(* user 1 has made an area, a room in it and a piece of furniture in the   *)
(* room (a state Spec reaches); there are no items yet                     *)
Furnished ==
    LET empty == [areas |-> NoRows, rooms |-> NoRows, storages |-> NoRows,
                  items |-> NoRows, itemCache |-> [s \in StorageNos |-> {}],
                  files |-> {}, seq |-> [Seq0 EXCEPT !.user = 2]]
        a == crud_create_storage_space(empty, 1, "Garage").db
        r == crud_create_room(a, 1, "Attic").db
    IN  crud_create_storage(r, 1, "Shelf", 1).db

InitSearch ==
    /\ users = [u \in 1..2 |-> Registered(u)]
    /\ profiles = NoRows
    /\ userCache = {}
    /\ profileCache = [u \in UserNos |-> {}]
    /\ inflight = NoInflight
    /\ outbox = {[email |-> Registered(u).email, code |-> "111111"] : u \in 1..2}
    /\ areas = Furnished.areas
    /\ rooms = Furnished.rooms
    /\ storages = Furnished.storages
    /\ items = NoRows
    /\ itemCache = Furnished.itemCache
    /\ files = {}
    /\ seq = Furnished.seq

NextSearch ==
    \/ \E item \in NamedItemCreates : CreateNamedItem(1, item)
    \/ \E i \in DOMAIN items, n \in SearchNames :
          UpdateItem(1, i, "item_name" :> n, FALSE)
    \/ \E i \in DOMAIN items : DeleteItem(1, i, TRUE)
    \/ \E q \in SearchQueries : GetItemList(q)

NextImages ==
    \/ \E item \in ItemCreates, file \in BOOLEAN :
          item.storage_no = 1 /\ CreateStoredItem(1, item, file)
    \/ \E i \in DOMAIN items, d \in Optional("item_imageURL", ImageURLs), file \in BOOLEAN :
          UpdateItem(1, i, d, file)
    \/ \E i \in DOMAIN items, removable \in BOOLEAN : DeleteItem(1, i, removable)

NextInterleaved ==
    \/ \E n \in {"Garage"} : CreateUserStorageSpace(1, 1, n)
    \/ \E a \in DOMAIN areas : CreateRoomCheck(1, a)
    \/ \E r \in DOMAIN rooms : CreateStorageCheck(1, r)
    \/ \E t \in DOMAIN storages : CreateItemCheck(1, t)
    \/ \E a \in DOMAIN areas : DeleteAreaCheck(1, a)
    \/ \E r \in DOMAIN rooms : DeleteRoomCheck(1, r)
    \/ \E t \in DOMAIN storages : DeleteStorageCheck(1, t)
    \/ \E i \in DOMAIN items : DeleteItem(1, i, TRUE)
    \/ \E req \in inflight.storage : CreateRoomWrite(req)
    \/ \E req \in inflight.storage : CreateStorageWrite(req)
    \/ \E req \in inflight.storage : CreateItemWrite(req)
    \/ \E req \in inflight.storage, visible \in BOOLEAN : DeleteAreaWrite(req, visible)
    \/ \E req \in inflight.storage, visible \in BOOLEAN : DeleteRoomWrite(req, visible)
    \/ \E req \in inflight.storage, visible \in BOOLEAN : DeleteStorageWrite(req, visible)

Spec == Init /\ [][Next]_vars

SpecUser == InitEmpty /\ [][NextUser]_vars

SpecRace == InitEmpty /\ [][NextRace]_vars

SpecSearch == InitSearch /\ [][NextSearch]_vars

SpecImages == InitSearch /\ [][NextImages]_vars

SpecInterleaved == Init /\ [][NextInterleaved]_vars

----------------------------------------------------------------------------
(* Properties.  The chain owner of an entity is the user_no reached by     *)
(* walking its parent references; a request is denied when it is answered  *)
(* 403, carries no data and leaves every table, the cache and the image    *)
(* directory as they were.                                                 *)

AreaOwner(a) == areas[a].user_no
RoomOwner(r) == AreaOwner(rooms[r].area_no)
StorageOwner(s) == RoomOwner(storages[s].room_no)
ItemOwner(i) == StorageOwner(items[i].storage_no)

SameRows(out) ==
    /\ out.db.areas = areas
    /\ out.db.rooms = rooms
    /\ out.db.storages = storages
    /\ out.db.items = items
    /\ out.db.files = files

Denied(out) == out.status = Forbidden /\ out.body = {} /\ SameRows(out)

RoomsOf(a) == {r \in DOMAIN rooms : rooms[r].area_no = a}
StoragesOf(r) == {s \in DOMAIN storages : storages[s].room_no = r}
ItemsOf(s) == {i \in DOMAIN items : items[i].storage_no = s}

(* C1: every read, update, delete of a furniture row by a principal other  *)
(* than its chain owner, and that principal's listing of the furniture of  *)
(* its room, is denied.                                                    *)
C1_FurnitureDeniedToOthers ==
    \A f \in DOMAIN storages : \A v \in Principals \ {StorageOwner(f)} :
        /\ Denied(read_storage(DB, v, f))
        /\ \A d \in StorageUpdates : Denied(update_storage(DB, v, f, d))
        /\ Denied(delete_storage(DB, v, f))
        /\ Denied(get_storages_by_room(DB, v, storages[f].room_no))

(* C2: every read, well-formed update, delete of an item by a principal    *)
(* other than its chain owner, and that principal's listing of the items   *)
(* of its furniture, is denied; the item row and the image files stay.     *)
C2_ItemsDeniedToOthers ==
    \A i \in DOMAIN items : \A v \in Principals \ {ItemOwner(i)} :
        /\ Denied(read_item(DB, v, i))
        /\ \A d \in ItemUpdates, file \in BOOLEAN :
              ItemUpdate_valid(d) => Denied(update_item_route(DB, v, i, d, file))
        /\ \A removable \in BOOLEAN : Denied(delete_item(DB, v, i, removable))
        /\ Denied(get_items_by_storage_route(DB, v, items[i].storage_no))

(* C2 witness: an item with an image file on disk, and a second principal  *)
(* whose read of it is answered 403                                        *)
C2_Witness ==
    \E i \in DOMAIN items : \E v \in Principals \ {ItemOwner(i)} :
        /\ items[i].item_imageURL \in files
        /\ read_item(DB, v, i).status = Forbidden
        /\ delete_item(DB, v, i, TRUE).status = Forbidden

(* C3: every read, update, delete of an area or a room by a principal      *)
(* other than its owner, under any user id in the path, and the listing of *)
(* the area's rooms, is denied.                                            *)
C3_AreasRoomsDeniedToOthers ==
    /\ \A a \in DOMAIN areas : \A v \in Principals \ {AreaOwner(a)} :
          /\ \A u \in UserNos :
                /\ Denied(read_user_storage_space(DB, v, u, a))
                /\ \A n \in AreaNames :
                      Denied(update_user_storage_space(DB, v, u, a, n))
                /\ Denied(delete_user_storage_space(DB, v, u, a))
          /\ Denied(read_rooms_by_area(DB, v, a))
    /\ \A r \in DOMAIN rooms : \A v \in Principals \ {RoomOwner(r)} :
          /\ Denied(read_room(DB, v, r))
          /\ \A n \in RoomNames \cup {""} : Denied(update_room(DB, v, r, n))
          /\ Denied(delete_room(DB, v, r))

(* C4: a read, update or delete of an existing area, room, furniture or    *)
(* item asked by its chain owner is never answered 403.                    *)
C4_OwnerNeverForbidden ==
    /\ \A a \in DOMAIN areas :
          LET U == AreaOwner(a)
          IN  /\ read_user_storage_space(DB, U, U, a).status # Forbidden
              /\ \A n \in AreaNames :
                    update_user_storage_space(DB, U, U, a, n).status # Forbidden
              /\ delete_user_storage_space(DB, U, U, a).status # Forbidden
    /\ \A r \in DOMAIN rooms :
          LET U == RoomOwner(r)
          IN  /\ read_room(DB, U, r).status # Forbidden
              /\ \A n \in RoomNames \cup {""} : update_room(DB, U, r, n).status # Forbidden
              /\ delete_room(DB, U, r).status # Forbidden
    /\ \A s \in DOMAIN storages :
          LET U == StorageOwner(s)
          IN  /\ read_storage(DB, U, s).status # Forbidden
              /\ \A d \in StorageUpdates : update_storage(DB, U, s, d).status # Forbidden
              /\ delete_storage(DB, U, s).status # Forbidden
    /\ \A i \in DOMAIN items :
          LET U == ItemOwner(i)
          IN  /\ read_item(DB, U, i).status # Forbidden
              /\ \A d \in ItemUpdates, file \in BOOLEAN :
                    update_item_route(DB, U, i, d, file).status # Forbidden
              /\ \A removable \in BOOLEAN :
                    delete_item(DB, U, i, removable).status # Forbidden

(* C4 witness: an item exists and its owner's read is answered 200, and   *)
(* a furniture's owner reads it where the owner's user_no is not the       *)
(* area_no of the chain                                                    *)
C4_Witness ==
    \/ \E i \in DOMAIN items : read_item(DB, ItemOwner(i), i).status = OK
    \/ \E s \in DOMAIN storages :
          /\ StorageOwner(s) # rooms[storages[s].room_no].area_no
          /\ read_storage(DB, StorageOwner(s), s).status = OK

(* C5: a create succeeds only for the owner of the requested parent (for   *)
(* an area: the user named in the path); asked by anyone else of an        *)
(* existing parent it is denied, and no row and no file is written.        *)
C5_CreateOnlyUnderOwnParent ==
    \A P \in Principals :
        /\ \A X \in UserNos, n \in AreaNames :
              LET out == create_user_storage_space(DB, P, X, n)
              IN  /\ out.status = OK => P = X
                  /\ P # X => Denied(out) /\ out.db = DB
        /\ \A A \in AreaNos, n \in RoomNames :
              LET out == create_room(DB, P, A, n)
              IN  /\ out.status = OK => A \in DOMAIN areas /\ AreaOwner(A) = P
                  /\ A \in DOMAIN areas /\ AreaOwner(A) # P
                        => Denied(out) /\ out.db = DB
        /\ \A R \in RoomNos, n \in StorageNames, w \in StorageRows :
              LET out == create_storage(DB, P, R, n, w)
              IN  /\ out.status = OK => R \in DOMAIN rooms /\ RoomOwner(R) = P
                  /\ R \in DOMAIN rooms /\ RoomOwner(R) # P
                        => Denied(out) /\ out.db = DB
        /\ \A item \in ItemCreates, file \in BOOLEAN :
              LET F == item.storage_no
                  out == create_item_route(DB, P, item, file)
              IN  /\ out.status = OK => F \in DOMAIN storages /\ StorageOwner(F) = P
                  /\ F \in DOMAIN storages /\ StorageOwner(F) # P
                        => Denied(out) /\ out.db = DB

(* C5 witness: a furniture of one user, another principal's upload of an   *)
(* item with an image under it is answered 403, the owner's is accepted    *)
C5_Witness ==
    \E F \in DOMAIN storages : \E v \in Principals \ {StorageOwner(F)} :
        LET item == [storage_no |-> F, item_name |-> "Lamp", item_type |-> "food",
                     item_quantity |-> 1, row_num |-> 1]
        IN  /\ create_item_route(DB, v, item, TRUE).status = Forbidden
            /\ create_item_route(DB, StorageOwner(F), item, TRUE).status = OK

(* C6: the owner's delete of an area that has a room, of a room that has   *)
(* furniture, of a furniture that has an item is answered Conflict; and    *)
(* whoever asks, parent and children stay as they were.                    *)
C6_DeleteWithChildrenConflicts ==
    /\ \A a \in DOMAIN areas : RoomsOf(a) # {} =>
          /\ delete_user_storage_space(DB, AreaOwner(a), AreaOwner(a), a).status
                = Conflict
          /\ \A v \in Principals, u \in UserNos :
                SameRows(delete_user_storage_space(DB, v, u, a))
    /\ \A r \in DOMAIN rooms : StoragesOf(r) # {} =>
          /\ delete_room(DB, RoomOwner(r), r).status = Conflict
          /\ \A v \in Principals : SameRows(delete_room(DB, v, r))
    /\ \A s \in DOMAIN storages : ItemsOf(s) # {} =>
          /\ delete_storage(DB, StorageOwner(s), s).status = Conflict
          /\ \A v \in Principals : SameRows(delete_storage(DB, v, s))

(* C6 witness: a chain area - room - furniture - item, each delete along   *)
(* it answered 400                                                         *)
C6_Witness ==
    \E i \in DOMAIN items :
        LET s == items[i].storage_no
            r == storages[s].room_no
            a == rooms[r].area_no
        IN  /\ delete_storage(DB, ItemOwner(i), s).status = Conflict
            /\ delete_room(DB, ItemOwner(i), r).status = Conflict
            /\ delete_user_storage_space(DB, ItemOwner(i), ItemOwner(i), a).status
                  = Conflict

(* C7: the owner's delete of an area without rooms, of a room without      *)
(* furniture, of a furniture without items is answered 200 and the row is  *)
(* gone, whatever was done before.                                         *)
C7_ChildlessDeleteSucceeds ==
    /\ \A a \in DOMAIN areas : RoomsOf(a) = {} =>
          LET out == delete_user_storage_space(DB, AreaOwner(a), AreaOwner(a), a)
          IN  out.status = OK /\ a \notin DOMAIN out.db.areas
    /\ \A r \in DOMAIN rooms : StoragesOf(r) = {} =>
          LET out == delete_room(DB, RoomOwner(r), r)
          IN  out.status = OK /\ r \notin DOMAIN out.db.rooms
    /\ \A s \in DOMAIN storages : ItemsOf(s) = {} =>
          LET out == delete_storage(DB, StorageOwner(s), s)
          IN  out.status = OK /\ s \notin DOMAIN out.db.storages

(* C8: the owner's delete of an existing item is answered 200 whenever the *)
(* operating system would let the file go; afterwards the row is absent,   *)
(* the item-image read is answered 404 and the image file is gone.         *)
C8_ItemDeleteAlwaysSucceeds ==
    \A i \in DOMAIN items :
        LET url == items[i].item_imageURL
            out == delete_item(DB, ItemOwner(i), i, TRUE)
        IN  /\ out.status = OK
            /\ i \notin DOMAIN out.db.items
            /\ get_item_image(out.db, i).status = NotFound
            /\ url \notin out.db.files

(* C9: reading an area right after its owner created it with name n gives  *)
(* n and the owner; right after the owner's update to m gives m, the same  *)
(* area_no and the same owner; and between two reads the stored area       *)
(* differs only by such an update.                                         *)
C9_ReadAfterWrite ==
    \A U \in Principals :
        /\ \A n \in AreaNames :
              LET made == create_user_storage_space(DB, U, U, n)
                  id == made.db.seq.area
              IN  /\ made.status = OK
                  /\ read_user_storage_space(made.db, U, U, id) =
                        Outcome(OK, {[area_no |-> id, user_no |-> U, area_name |-> n,
                                      storage_owner |-> TRUE]}, made.db)
        /\ \A a \in get_areas_by_user(DB, U), m \in AreaNames :
              LET upd == update_user_storage_space(DB, U, U, a, m)
              IN  /\ upd.status = OK
                  /\ read_user_storage_space(upd.db, U, U, a) =
                        Outcome(OK, {[area_no |-> a, user_no |-> U, area_name |-> m,
                                      storage_owner |-> TRUE]}, upd.db)

C9_OnlyUpdateChanges ==
    \A a \in (DOMAIN areas) \cap (DOMAIN areas') :
        areas'[a] # areas[a] =>
            \E m \in AreaNames :
                /\ areas' = update_user_storage_space(DB, AreaOwner(a), AreaOwner(a),
                                                      a, m).db.areas
                /\ areas'[a] = [areas[a] EXCEPT !.area_name = m]

C9_AreaRoundTrip == []C9_ReadAfterWrite /\ [][C9_OnlyUpdateChanges]_vars

(* C9 witness: an area whose owner renames it, the read after the update  *)
(* giving the new name                                                     *)
C9_Witness ==
    \E a \in DOMAIN areas :
        LET U == AreaOwner(a)
            upd == update_user_storage_space(DB, U, U, a, "Shed")
        IN  /\ areas[a].area_name = "Garage"
            /\ upd.status = OK
            /\ read_user_storage_space(upd.db, U, U, a).body =
                  {[area_no |-> a, user_no |-> U, area_name |-> "Shed",
                    storage_owner |-> TRUE]}

(* C10: a sign-up whose e-mail or phone is registered is answered          *)
(* Conflict, adds no member_user row and sends no verification e-mail.     *)
C10_DuplicateSignupConflict ==
    \A user \in UserCreates, code \in Codes, delivered \in BOOLEAN :
        get_user_by_email(UDB, user.email) # {}
        \/ get_user_by_phone(UDB, user.cell_phone) # {}
        => LET out == create_user_route(UDB, user, code, delivered)
           IN  /\ out.status = Conflict
               /\ out.db.users = users
               /\ out.db.outbox = outbox

ProfilesOf(u) == {p \in DOMAIN profiles : profiles[p].user_no = u}

(* C11: a user has at most one member_profile row, also when profile-create *)
(* requests for the same user are served at the same time; and the owner's  *)
(* profile-create while a profile exists is rejected, the rows unchanged.   *)
C11_AtMostOneProfile ==
    /\ \A u \in UserNos : Cardinality(ProfilesOf(u)) <= 1
    /\ \A cu \in Principals, n \in NicknameInputs, file \in BOOLEAN :
          ProfilesOf(cu) # {} =>
              LET out == profile_create_route(UDB, cu, cu, n, file)
              IN  out.status # OK /\ out.db.profiles = profiles

(* C12: no two member_user rows share an e-mail, none share a phone number, *)
(* whatever the interleaving of the sign-ups' checks and writes.            *)
C12_UniqueEmailAndPhone ==
    \A u, v \in DOMAIN users :
        u # v => /\ users[u].email # users[v].email
                 /\ users[u].cell_phone # users[v].cell_phone

(* C12 witness: a sign-up passed its check, and before its INSERT another   *)
(* sign-up stored the same e-mail: the INSERT is refused                    *)
C12_Witness ==
    \E req \in inflight.signup :
        /\ \E u \in DOMAIN users : users[u].email = req.user.email
        /\ create_user_route_write(UDB, req.user, req.code, TRUE).status = ServerError

(* C13: a user row is created disabled with a stored code; a verify-code  *)
(* request with another code is rejected and changes nothing; a disabled   *)
(* user becomes enabled only by a verify-code request carrying the stored  *)
(* code, which clears it; no verify-code request succeeds for an enabled   *)
(* user; login answers 200 only for an enabled user.                       *)
C13_Requests ==
    /\ \A u \in DOMAIN users :
          /\ users[u].user_isDisabled => users[u].verification_code \in Codes
          /\ ~users[u].user_isDisabled => users[u].verification_code = NoCode
          /\ \A code \in CodeInputs :
                LET out == verify_code_route(UDB, users[u].email, code)
                IN  /\ code # users[u].verification_code =>
                          out.status # OK /\ out.db.users = users
                    /\ ~users[u].user_isDisabled => out.status # OK
                    /\ out.status = OK =>
                          /\ ~out.db.users[u].user_isDisabled
                          /\ out.db.users[u].verification_code = NoCode
    /\ \A email \in Emails, password \in PasswordInputs :
          LET out == login_for_access_token(UDB, email, password)
          IN  out.status = OK =>
                  \E u \in DOMAIN users : /\ users[u].email = email
                                          /\ ~users[u].user_isDisabled
                                          /\ out.body = {[access_token |-> email,
                                                          refresh_token |-> email,
                                                          user_no |-> u]}

C13_Step ==
    \A u \in DOMAIN users' :
        /\ u \notin DOMAIN users =>
              users'[u].user_isDisabled /\ users'[u].verification_code \in Codes
        /\ u \in DOMAIN users /\ users[u].user_isDisabled /\ ~users'[u].user_isDisabled =>
              users' = verify_code_route(UDB, users[u].email,
                                         users[u].verification_code).db.users
        /\ u \in DOMAIN users /\ ~users[u].user_isDisabled => ~users'[u].user_isDisabled

C13_UserLifecycle == []C13_Requests /\ [][C13_Step]_vars

(* C13 witness: one user verified (enabled, code cleared, login answered   *)
(* 200, the old code now refused), another still disabled with its code    *)
C13_Witness ==
    \E u, v \in DOMAIN users :
        /\ ~users[u].user_isDisabled /\ users[u].verification_code = NoCode
        /\ login_for_access_token(UDB, users[u].email, "secret1").status = OK
        /\ verify_code_route(UDB, users[u].email, "111111").status = BadRequest
        /\ users[v].user_isDisabled /\ users[v].verification_code = "222222"
        /\ verify_code_route(UDB, users[v].email, "111111").status = BadRequest
        /\ login_for_access_token(UDB, users[v].email, "secret1").status = Forbidden

(* the member_user table before the first sign-up *)
EmptyUDB == [UDB EXCEPT !.users = NoRows, !.seq.user = 0]

(* C14: every stored item has item_quantity > 0 and an item_type of the    *)
(* enum, every stored user a gender of the enum; an item create or update  *)
(* with a quantity <= 0 or a type outside the enum is rejected and leaves  *)
(* the item table as it was; so is a sign-up with another gender.          *)
C14_QuantityAndEnums ==
    /\ \A i \in DOMAIN items :
          items[i].item_quantity > 0 /\ items[i].item_type \in ItemTypes
    /\ \A u \in DOMAIN users : users[u].gender \in Genders
    /\ \A cu \in Principals, file \in BOOLEAN :
          /\ \A item \in ItemCreates :
                item.item_quantity <= 0 \/ item.item_type \notin ItemTypes =>
                    LET out == create_item_route(DB, cu, item, file)
                    IN  out.status # OK /\ out.db.items = items
          /\ \A i \in DOMAIN items, d \in ItemUpdates :
                \/ "item_quantity" \in DOMAIN d /\ d.item_quantity <= 0
                \/ "item_type" \in DOMAIN d /\ d.item_type \notin ItemTypes
                => LET out == update_item_route(DB, cu, i, d, file)
                   IN  out.status # OK /\ out.db.items = items
    /\ \A user \in UserCreates, code \in Codes :
          LET out == create_user_route(EmptyUDB, user, code, TRUE)
          IN  IF user.gender \in Genders
              THEN out.status = OK /\ out.db.users[1].gender = user.gender
              ELSE out.status # OK /\ out.db.users = NoRows

(* C14 witness: an item whose owner's update to quantity 0, to the type    *)
(* "gadget" and to a null quantity are refused, as is a create with 0      *)
C14_Witness ==
    \E i \in DOMAIN items :
        LET U == ItemOwner(i)
            zero == [storage_no |-> items[i].storage_no, item_name |-> "Lamp",
                     item_type |-> "food", item_quantity |-> 0, row_num |-> 1]
        IN  /\ update_item_route(DB, U, i, [item_quantity |-> 0], FALSE).status
                  = Unprocessable
            /\ update_item_route(DB, U, i, [item_type |-> "gadget"], FALSE).status
                  = Unprocessable
            /\ update_item_route(DB, U, i, [item_quantity |-> NullQuantity], FALSE).status
                  = ServerError
            /\ update_item_route(DB, U, i, [item_quantity |-> 1], FALSE).status = OK
            /\ create_item_route(DB, U, zero, FALSE).status = ServerError

(* C15: the owner's listing of a container without children is answered   *)
(* 200 with an empty list: the areas of a user without areas, the rooms of *)
(* an area without rooms, the furniture of a room without furniture, the   *)
(* items of a furniture without items.                                     *)
C15_EmptyListIsSuccess ==
    /\ \A U \in Principals : get_areas_by_user(DB, U) = {} =>
          LET out == load_user_storage_space(DB, U, U)
          IN  out.status = OK /\ out.body = {}
    /\ \A a \in DOMAIN areas : RoomsOf(a) = {} =>
          LET out == read_rooms_by_area(DB, AreaOwner(a), a)
          IN  out.status = OK /\ out.body = {}
    /\ \A r \in DOMAIN rooms : StoragesOf(r) = {} =>
          LET out == get_storages_by_room(DB, RoomOwner(r), r)
          IN  out.status = OK /\ out.body = {}
    /\ \A s \in DOMAIN storages : ItemsOf(s) = {} =>
          LET out == get_items_by_storage_route(DB, StorageOwner(s), s)
          IN  out.status = OK /\ out.body = {}

(* the fields of a listed item that a cached and a fresh list both carry *)
ItemView(r) ==
    [item_id |-> r.item_id, item_name |-> r.item_name, row_num |-> r.row_num,
     item_imageURL |-> r.item_imageURL, item_type |-> r.item_type,
     item_quantity |-> r.item_quantity]

(* C16: the owner's listing of the items of a furniture is answered 200    *)
(* with exactly the items stored under it now, with their current fields.  *)
C16_ListingIsCurrent ==
    \A s \in DOMAIN storages :
        LET out == get_items_by_storage_route(DB, StorageOwner(s), s)
        IN  /\ out.status = OK
            /\ {ItemView(r) : r \in out.body} = {ItemDict(DB, i) : i \in ItemsOf(s)}

(* C17: the item-image read gives the image to nobody but the item's chain *)
(* owner; the handler takes no principal, so what it answers it answers to *)
(* every other user and to a request without a token (None).               *)
C17_ImageOnlyForOwner ==
    \A i \in DOMAIN items : \A v \in (UserNos \cup {None}) \ {ItemOwner(i)} :
        get_item_image(DB, i).status # OK

(* C18: a delete of an area, room or furniture asked by a principal who   *)
(* does not own it is answered Forbidden, with or without children, never  *)
(* Conflict; NotFound, Forbidden and Conflict are three different answers. *)
C18_DeleteAuthorizedBeforeGuard ==
    /\ \A a \in DOMAIN areas : \A v \in Principals \ {AreaOwner(a)}, u \in UserNos :
          delete_user_storage_space(DB, v, u, a).status = Forbidden
    /\ \A r \in DOMAIN rooms : \A v \in Principals \ {RoomOwner(r)} :
          delete_room(DB, v, r).status = Forbidden
    /\ \A s \in DOMAIN storages : \A v \in Principals \ {StorageOwner(s)} :
          delete_storage(DB, v, s).status = Forbidden
    /\ Cardinality({NotFound, Forbidden, Conflict}) = 3

(* C19: a create of a room, furniture or item under a parent id without a  *)
(* row, and a listing of the children of a container id without a row, is  *)
(* answered NotFound and writes nothing.                                   *)
C19_MissingParentIsNotFound ==
    \A P \in Principals :
        /\ \A A \in AreaNos \ DOMAIN areas :
              /\ \A n \in RoomNames :
                    LET out == create_room(DB, P, A, n)
                    IN  out.status = NotFound /\ SameRows(out)
              /\ read_rooms_by_area(DB, P, A).status = NotFound
        /\ \A R \in RoomNos \ DOMAIN rooms :
              /\ \A n \in StorageNames, w \in StorageRows :
                    LET out == create_storage(DB, P, R, n, w)
                    IN  out.status = NotFound /\ SameRows(out)
              /\ get_storages_by_room(DB, P, R).status = NotFound
        /\ \A F \in StorageNos \ DOMAIN storages :
              /\ \A item \in ItemCreates, file \in BOOLEAN :
                    item.storage_no = F =>
                        LET out == create_item_route(DB, P, item, file)
                        IN  out.status = NotFound /\ SameRows(out)
              /\ get_items_by_storage_route(DB, P, F).status = NotFound

(* redis contents that a state with these rows may hold: no key, or for   *)
(* one furniture that was ever created a list cached earlier               *)
StaleLists ==
    {{}, {[item_id |-> 1, item_name |-> "Lamp", row_num |-> 1, item_imageURL |-> NoImage,
           item_type |-> "food", item_quantity |-> 1]}}

CacheVariants ==
    {[itemCache EXCEPT ![s] = c] : s \in 1..seq.storage, c \in StaleLists}
    \cup {[s \in StorageNos |-> {}]}

Deny(out) == out.status = Forbidden

(* update bodies of each kind: empty, well-formed, rejected by validation *)
StorageUpdateKinds == {NoFields, [storage_name |-> "Chest"]}

ItemUpdateKinds ==
    {NoFields, [item_name |-> "Lamp"], [item_quantity |-> 0], [item_type |-> NullType]}

(* every storage handler gives, for every principal and every request, the *)
(* same allow / deny decision on db as on the current tables and cache     *)
DecidesAlike(db) ==
    \A cu \in Principals :
        /\ \A u \in UserNos :
              /\ Deny(load_user_storage_space(db, cu, u))
                    = Deny(load_user_storage_space(DB, cu, u))
              /\ \A n \in AreaNames :
                    Deny(create_user_storage_space(db, cu, u, n))
                      = Deny(create_user_storage_space(DB, cu, u, n))
              /\ \A a \in Ids(areas, seq.area) :
                    /\ Deny(read_user_storage_space(db, cu, u, a))
                          = Deny(read_user_storage_space(DB, cu, u, a))
                    /\ Deny(delete_user_storage_space(db, cu, u, a))
                          = Deny(delete_user_storage_space(DB, cu, u, a))
                    /\ \A n \in AreaNames :
                          Deny(update_user_storage_space(db, cu, u, a, n))
                            = Deny(update_user_storage_space(DB, cu, u, a, n))
        /\ \A a \in Ids(areas, seq.area) :
              /\ Deny(read_rooms_by_area(db, cu, a)) = Deny(read_rooms_by_area(DB, cu, a))
              /\ \A n \in RoomNames :
                    Deny(create_room(db, cu, a, n)) = Deny(create_room(DB, cu, a, n))
        /\ \A r \in Ids(rooms, seq.room) :
              /\ Deny(read_room(db, cu, r)) = Deny(read_room(DB, cu, r))
              /\ Deny(delete_room(db, cu, r)) = Deny(delete_room(DB, cu, r))
              /\ Deny(get_storages_by_room(db, cu, r))
                    = Deny(get_storages_by_room(DB, cu, r))
              /\ \A n \in RoomNames :
                    Deny(update_room(db, cu, r, n)) = Deny(update_room(DB, cu, r, n))
              /\ \A n \in StorageNames, w \in StorageRows :
                    Deny(create_storage(db, cu, r, n, w))
                      = Deny(create_storage(DB, cu, r, n, w))
        /\ \A s \in Ids(storages, seq.storage) :
              /\ Deny(read_storage(db, cu, s)) = Deny(read_storage(DB, cu, s))
              /\ Deny(delete_storage(db, cu, s)) = Deny(delete_storage(DB, cu, s))
              /\ Deny(get_items_by_storage_route(db, cu, s))
                    = Deny(get_items_by_storage_route(DB, cu, s))
              /\ \A d \in StorageUpdateKinds :
                    Deny(update_storage(db, cu, s, d)) = Deny(update_storage(DB, cu, s, d))
        /\ \A item \in ItemCreates :
              item.storage_no \in Ids(storages, seq.storage) =>
                  Deny(create_item_route(db, cu, item, FALSE))
                    = Deny(create_item_route(DB, cu, item, FALSE))
        /\ \A i \in Ids(items, seq.item) :
              /\ Deny(read_item(db, cu, i)) = Deny(read_item(DB, cu, i))
              /\ Deny(get_item_image(db, i)) = Deny(get_item_image(DB, i))
              /\ Deny(delete_item(db, cu, i, TRUE)) = Deny(delete_item(DB, cu, i, TRUE))
              /\ \A d \in ItemUpdateKinds :
                    Deny(update_item_route(db, cu, i, d, FALSE))
                      = Deny(update_item_route(DB, cu, i, d, FALSE))

(* C20: with the same rows, every cache content gives the same allow/deny  *)
(* decision for every area, room, furniture and item request of every      *)
(* principal.                                                              *)
C20_SameDecisions ==
    \A c \in CacheVariants \ {itemCache} : DecidesAlike([DB EXCEPT !.itemCache = c])

C20_DecisionIgnoresCache == []C20_SameDecisions

(* C20 witness: a cached list that no longer matches the rows, under a     *)
(* furniture whose owner is allowed and whose non-owner is denied          *)
C20_Witness ==
    \E s \in DOMAIN storages : \E v \in Principals \ {StorageOwner(s)} :
        /\ itemCache[s] # {}
        /\ itemCache[s] # {ItemDict(DB, i) : i \in ItemsOf(s)}
        /\ get_items_by_storage_route(DB, v, s).status = Forbidden
        /\ get_items_by_storage_route(DB, StorageOwner(s), s).status = OK

(* C21: a sign-up for an e-mail and phone nobody holds that ends in an     *)
(* error, a failed delivery of the verification e-mail included, leaves no *)
(* member_user row with that e-mail or phone, and the same sign-up then    *)
(* succeeds.                                                               *)
C21_SignupAtomic ==
    \A user \in UserCreates, code \in Codes, delivered \in BOOLEAN :
        LET out == create_user_route(UDB, user, code, delivered)
        IN  /\ seq.user < MaxUser
            /\ get_user_by_email(UDB, user.email) = {}
            /\ get_user_by_phone(UDB, user.cell_phone) = {}
            /\ out.status # OK
            => /\ get_user_by_email(out.db, user.email) = {}
               /\ get_user_by_phone(out.db, user.cell_phone) = {}
               /\ UserCreate_valid(user)
                  => create_user_route(out.db, user, code, TRUE).status = OK

(* C22: the owner's delete of an item with an image file removes the row   *)
(* whether or not the operating system lets the file go, and whenever the  *)
(* row is still there after the request its image file is there as well.   *)
C22_ImageRemovalBestEffort ==
    \A i \in DOMAIN items, removable \in BOOLEAN :
        LET url == items[i].item_imageURL
            out == delete_item(DB, ItemOwner(i), i, removable)
        IN  url \in files
            => /\ i \notin DOMAIN out.db.items
               /\ i \in DOMAIN out.db.items => url \in out.db.files

(* C23: the search for a single initial consonant c returns every item     *)
(* whose name begins with a syllable of initial c and no item whose        *)
(* initial-sound signature lacks c; what it returns is the items matched   *)
(* by the initial-sound prefix or by the query as a substring of the name, *)
(* kept when their signature contains the query's signature.               *)
C23_InitialSoundSearch ==
    \A q \in SearchQueries :
        LET c == q[1]
            returned == {r.item_id : r \in get_item_list(DB, q).body}
            name(i) == items[i].item_name
            prefixed == {i \in DOMAIN items :
                            /\ ord_ga <= name(i)[1] /\ name(i)[1] <= ord_hih
                            /\ get_initial(name(i))[1] = c}
            substring == {i \in DOMAIN items : Contains(name(i), q)}
        IN  Len(q) = 1 /\ (\E k \in 1..Len(CHO) : CHO[k] = c)
            => /\ prefixed \subseteq returned
               /\ \A i \in returned : Contains(get_initial(name(i)), <<c>>)
               /\ returned = {i \in prefixed \cup substring :
                                 Contains(get_initial(name(i)), get_initial(q))}

(* the same database behind a cache that holds nothing *)
Uncached(udb) ==
    [udb EXCEPT !.userCache = {}, !.profileCache = [u \in UserNos |-> {}]]

(* C24: the profile read and the profile update of a user by that user are *)
(* answered with the same status and data, and leave the same member_profile *)
(* rows, whether redis holds the user's entries or holds nothing.          *)
C24_CacheTransparent ==
    \A u \in Principals :
        /\ LET hit == profile_read_route(UDB, u, u)
               miss == profile_read_route(Uncached(UDB), u, u)
           IN  hit.status = miss.status /\ hit.body = miss.body
        /\ \A n \in NicknameUpdates :
              LET hit == profile_update_route(UDB, u, u, n, FALSE)
                  miss == profile_update_route(Uncached(UDB), u, u, n, FALSE)
              IN  /\ hit.status = miss.status
                  /\ hit.body = miss.body
                  /\ hit.db.profiles = miss.db.profiles

(* C25: the owner's delete of item i leaves the image file of every other  *)
(* item j in place: if j's image reference named an existing file before   *)
(* the delete, it names one after it.                                      *)
C25_DeleteKeepsOtherImages ==
    \A i \in DOMAIN items, removable \in BOOLEAN :
        LET out == delete_item(DB, ItemOwner(i), i, removable)
        IN  \A j \in DOMAIN items \ {i} :
                items[j].item_imageURL \in files
                => items[j].item_imageURL \in out.db.files

(* C26: no step changes the user_no of an area, the area_no of a room, the *)
(* room_no of a piece of furniture or the storage_no of an item, a row     *)
(* that appears carries an id never used before, and so every row keeps    *)
(* its chain owner from the step that creates it to the step that deletes  *)
(* it.                                                                     *)
C26_Step ==
    /\ \A a \in DOMAIN areas \cap DOMAIN areas' :
          areas'[a].user_no = areas[a].user_no
    /\ \A r \in DOMAIN rooms \cap DOMAIN rooms' :
          rooms'[r].area_no = rooms[r].area_no /\ RoomOwner(r)' = RoomOwner(r)
    /\ \A s \in DOMAIN storages \cap DOMAIN storages' :
          storages'[s].room_no = storages[s].room_no
          /\ StorageOwner(s)' = StorageOwner(s)
    /\ \A i \in DOMAIN items \cap DOMAIN items' :
          items'[i].storage_no = items[i].storage_no /\ ItemOwner(i)' = ItemOwner(i)
    /\ \A a \in DOMAIN areas' \ DOMAIN areas : a > seq.area
    /\ \A r \in DOMAIN rooms' \ DOMAIN rooms : r > seq.room
    /\ \A s \in DOMAIN storages' \ DOMAIN storages : s > seq.storage
    /\ \A i \in DOMAIN items' \ DOMAIN items : i > seq.item

C26_OwnershipFixed == [][C26_Step]_vars

(* an item whose image reference only an update can have written, in a     *)
(* piece of furniture that an update renamed or left as it was, its chain  *)
(* of parents leading to user 1                                            *)
C26_Witness ==
    \E i \in DOMAIN items :
        /\ items[i].item_imageURL = DirURL
        /\ ItemOwner(i) = 1
        /\ storages[items[i].storage_no].storage_name = "Chest"

(* C27: whatever the order in which the checks and the writes of create    *)
(* and delete requests are served, every room names an existing area,      *)
(* every piece of furniture an existing room and every item an existing    *)
(* piece of furniture.                                                     *)
C27_NoOrphans ==
    /\ \A r \in DOMAIN rooms : rooms[r].area_no \in DOMAIN areas
    /\ \A t \in DOMAIN storages : storages[t].room_no \in DOMAIN rooms
    /\ \A i \in DOMAIN items : items[i].storage_no \in DOMAIN storages

====
